---- MODULE Spec2Model ----
(***************************************************************************)
(* Federated EHR coordination engine (ai_ml/src/federated_ehr_ai.py):      *)
(* FederatedEHRModel (client registry, federated averaging, rounds) and    *)
(* FederatedEHROrchestrator (fetch fan-out, round trigger, distribution).  *)
(*                                                                         *)
(* Tensors are one-dimensional arrays, modelled as sequences of exact      *)
(* rationals [n, d]; the floating point of numpy is abstracted to exact    *)
(* arithmetic.  A weight list is a sequence of tensors.                    *)
(***************************************************************************)
EXTENDS Integers, Sequences, FiniteSets, TLC

\* ------------------------------------------------------------- bounds

\* Rounds are started only while current_round < MaxRounds.
MaxRounds == 2

\* Client ids known to the environment.
Ids == {"c1", "c2", "c3"}

\* The client ids used where two round triggers run concurrently.
ConcIds == {"c1", "c2"}

\* Institution names a caller registers under an id.
Names == {"A"}

\* Coroutines of coordinate_training_round that may be alive at once.
Tasks == {1, 2}

\* ------------------------------------------------- rational arithmetic

Abs(x) == IF x < 0 THEN -x ELSE x

RECURSIVE GCD(_, _)
GCD(a, b) == IF b = 0 THEN a ELSE GCD(b, a % b)

\* A rational in lowest terms with a positive denominator.
Rat(n, d) ==
    LET g == GCD(Abs(n), d)
    IN  [n |-> n \div g, d |-> d \div g]

RatInt(k) == [n |-> k, d |-> 1]

RatAdd(x, y) == Rat(x.n * y.d + y.n * x.d, x.d * y.d)

RatMul(x, y) == Rat(x.n * y.n, x.d * y.d)

\* An integer array as a tensor of rationals.
T(s) == [i \in 1..Len(s) |-> RatInt(s[i])]

\* ------------------------------------------------------ numpy helpers

\* np.zeros_like(t): zeros of the shape of t.
ZerosLike(t) == [i \in 1..Len(t) |-> RatInt(0)]

\* Whether numpy evaluates acc += operand: the operand must have the shape
\* of acc or broadcast to it (a length-1 array broadcasts to any length).
CanAddInPlace(acc, operand) ==
    Len(operand) = Len(acc) \/ Len(operand) = 1

\* Mutant: the client's weight is not applied.
AddUnscaled(acc, weight, operand) ==
    [i \in 1..Len(acc) |->
        RatAdd(acc[i], IF Len(operand) = Len(acc) THEN operand[i] ELSE operand[1])]

\* acc += weight * operand, for an operand that CanAddInPlace.
AddScaled(acc, weight, operand) ==
    [i \in 1..Len(acc) |->
        RatAdd(acc[i], RatMul(weight,
                              IF Len(operand) = Len(acc) THEN operand[i]
                                                         ELSE operand[1]))]

RECURSIVE SumSeq(_)
SumSeq(s) == IF s = <<>> THEN 0 ELSE Head(s) + SumSeq(Tail(s))

\* ----------------------------------------------- _federated_averaging

Ok(v) == [ok |-> TRUE, exc |-> "", value |-> v]

Raise(e) == [ok |-> FALSE, exc |-> e, value |-> <<>>]

\* The inner loop over the clients for one layer, from client client_idx on.
RECURSIVE LayerLoop(_, _, _, _, _, _)
LayerLoop(layer_avg, client_weights, client_sizes, total_size, layer_idx, client_idx) ==
    IF client_idx > Len(client_weights) THEN Ok(layer_avg)
    ELSE LET weights == client_weights[client_idx]
             weight  == Rat(client_sizes[client_idx], total_size)
         IN  IF layer_idx > Len(weights) THEN Raise("IndexError")
             ELSE IF ~CanAddInPlace(layer_avg, weights[layer_idx])
                  THEN Raise("ValueError")
             ELSE LayerLoop(AddScaled(layer_avg, weight, weights[layer_idx]),
                            client_weights, client_sizes, total_size,
                            layer_idx, client_idx + 1)

\* The outer loop over the layers of the first client's weight list.
RECURSIVE AvgLoop(_, _, _, _, _)
AvgLoop(avg_weights, client_weights, client_sizes, total_size, layer_idx) ==
    IF layer_idx > Len(client_weights[1]) THEN Ok(avg_weights)
    ELSE LET r == LayerLoop(ZerosLike(client_weights[1][layer_idx]),
                            client_weights, client_sizes, total_size,
                            layer_idx, 1)
         IN  IF ~r.ok THEN r
             ELSE AvgLoop(Append(avg_weights, r.value), client_weights,
                          client_sizes, total_size, layer_idx + 1)

\* _federated_averaging(client_weights, client_sizes); client_weights[0] of an
\* empty list raises IndexError.
FederatedAveraging(client_weights, client_sizes) ==
    IF client_weights = <<>> THEN Raise("IndexError")
    ELSE AvgLoop(<<>>, client_weights, client_sizes, SumSeq(client_sizes), 1)

\* ------------------------------------------------------ model topology

\* The tensor lengths of the network built by _build_model, abstracted to a
\* single tensor of length 2.
ModelShape == <<2>>

ShapeOf(weights) == [i \in 1..Len(weights) |-> Len(weights[i])]

\* The weights of the freshly built global model.
InitWeights == [i \in 1..Len(ModelShape) |-> [j \in 1..ModelShape[i] |-> RatInt(0)]]

\* global_model.set_weights(w): Keras refuses a weight list whose tensor count
\* or shapes differ from the model's (ValueError) and then sets nothing.
SetWeightsAccepts(weights) == ShapeOf(weights) = ModelShape

\* ------------------------------------------------------------ updates

\* An update: what _get_client_update returns for one client.
Update(w, size, acc, loss) ==
    [model_weights |-> w, data_size |-> size, accuracy |-> acc, loss |-> loss]

\* Two updates of the model's shape and one whose only tensor has length 1.
UA == Update(<<T(<<1, 1>>)>>, 300, 90, 10)
UB == Update(<<T(<<0, 0>>)>>, 700, 70, 30)
US == Update(<<T(<<1>>)>>, 300, 90, 10)

Updates == {UA, UB, US}

\* What awaiting one fetch can give: an update, None, or an exception.
FetchOutcomes == {[kind |-> "update", update |-> u] : u \in Updates}
                 \cup {[kind |-> "none", update |-> UA],
                       [kind |-> "error", update |-> UA]}

\* -------------------------------------------- federated_training_round

\* The updates of registered clients, in the order of client_updates.
RECURSIVE CollectRegistered(_, _)
CollectRegistered(registered, client_updates) ==
    IF client_updates = <<>> THEN <<>>
    ELSE LET rest == CollectRegistered(registered, Tail(client_updates))
         IN  IF Head(client_updates).id \in registered
             THEN <<Head(client_updates).update>> \o rest
             ELSE rest

\* Mutant: the emptiness check is missing.
NoUpdatesNever(client_weights) == FALSE

\* Mutant: a round needs two updates.
NoUpdatesBelowTwo(client_weights) == Len(client_weights) < 2

\* if not client_weights
NoUpdates(client_weights) == client_weights = <<>>

\* _evaluate_global_model: the running sums over all of client_updates.
RECURSIVE PerfTotals(_)
PerfTotals(client_updates) ==
    IF client_updates = <<>>
    THEN [total_accuracy |-> 0, total_loss |-> 0, total_samples |-> 0]
    ELSE LET u == Head(client_updates).update
             r == PerfTotals(Tail(client_updates))
         IN  [total_accuracy |-> r.total_accuracy + u.accuracy * u.data_size,
              total_loss     |-> r.total_loss + u.loss * u.data_size,
              total_samples  |-> r.total_samples + u.data_size]

\* float('inf'), as a rational with denominator 0
Infinity == [n |-> 1, d |-> 0]

\* _evaluate_global_model; the timestamp is left out.
EvaluateGlobalModel(client_updates) ==
    LET r == PerfTotals(client_updates)
    IN  [accuracy |-> IF r.total_samples > 0
                      THEN Rat(r.total_accuracy, r.total_samples)
                      ELSE RatInt(0),
         loss     |-> IF r.total_samples > 0
                      THEN Rat(r.total_loss, r.total_samples)
                      ELSE Infinity,
         participating_clients |-> Len(client_updates),
         total_samples |-> r.total_samples]

\* Mutant: a successful round advances the round number by two.
NextRoundSkips(round) == round + 2

\* Mutant: a successful round leaves the round number alone.
NextRoundStays(round) == round

\* self.current_round += 1
NextRound(round) == round + 1

\* Mutant: the history keeps only the latest snapshot.
AppendHistoryReplace(history, performance) == <<performance>>

\* self.performance_history.append(performance)
AppendHistory(history, performance) == Append(history, performance)

\* What a call returns or raises.
Result(status, reason, round) ==
    [status |-> status, reason |-> reason, round |-> round]

NoResult == Result("none", "", 0)

\* The model's mutable fields after the call, and the call's result.
Outcome(weights, round, history, res) ==
    [global_weights |-> weights, current_round |-> round,
     performance_history |-> history, result |-> res]

\* An update without the key data_size, as a client may send it.
UN == [model_weights |-> <<T(<<0, 0>>)>>, accuracy |-> 70, loss |-> 30]

\* client_sizes.append(update['data_size']) raises KeyError: the update of a
\* registered client has no data_size.
CollectRaises(registered, client_updates) ==
    \E i \in DOMAIN client_updates :
        /\ client_updates[i].id \in registered
        /\ "data_size" \notin DOMAIN client_updates[i].update

\* samples = update['data_size'] in _evaluate_global_model raises KeyError:
\* an update, of whatever client, has no data_size.
EvaluationRaises(client_updates) ==
    \E i \in DOMAIN client_updates :
        "data_size" \notin DOMAIN client_updates[i].update

\* Mutant: _federated_averaging is called whatever was collected.
AveragingCallUnguarded(registered, client_updates) ==
    LET collected == CollectRegistered(registered, client_updates)
    IN  [made           |-> TRUE,
         client_weights |-> [i \in 1..Len(collected) |-> collected[i].model_weights],
         client_sizes   |-> [i \in 1..Len(collected) |-> collected[i].data_size]]

\* Whether federated_training_round(client_updates) gets to its call of
\* _federated_averaging, and the arguments of that call.
AveragingCall(registered, client_updates) ==
    LET collected      == CollectRegistered(registered, client_updates)
        client_weights == [i \in 1..Len(collected) |-> collected[i].model_weights]
        client_sizes   == [i \in 1..Len(collected) |-> collected[i].data_size]
    IN  [made           |-> ~NoUpdates(client_weights),
         client_weights |-> client_weights,
         client_sizes   |-> client_sizes]

\* federated_training_round(client_updates) on a model with the given fields.
FederatedTrainingRound(registered, weights, round, history, client_updates) ==
    LET call           == AveragingCall(registered, client_updates)
        client_weights == call.client_weights
        client_sizes   == call.client_sizes
    IN  IF CollectRaises(registered, client_updates)
        THEN Outcome(weights, round, history, Result("raised", "KeyError", 0))
        ELSE IF ~call.made
        THEN Outcome(weights, round, history, Result("failed", "no_updates", 0))
        ELSE LET avg == FederatedAveraging(client_weights, client_sizes)
             IN  IF ~avg.ok
                 THEN Outcome(weights, round, history, Result("raised", avg.exc, 0))
                 ELSE IF ~SetWeightsAccepts(avg.value)
                 THEN Outcome(weights, round, history, Result("raised", "ValueError", 0))
                 ELSE IF EvaluationRaises(client_updates)
                 THEN Outcome(avg.value, round, history, Result("raised", "KeyError", 0))
                 ELSE Outcome(avg.value, NextRound(round),
                              AppendHistory(history, EvaluateGlobalModel(client_updates)),
                              Result("success", "", NextRound(round)))

\* -------------------------------------------------------------- state

VARIABLES
    clients,              \* FederatedEHRModel.clients: client id -> institution
    global_weights,       \* the weights of FederatedEHRModel.global_model
    current_round,        \* FederatedEHRModel.current_round
    performance_history,  \* FederatedEHRModel.performance_history
    active_clients,       \* FederatedEHROrchestrator.active_clients: its keys, in order
    pc,                   \* per coroutine of coordinate_training_round: where it is
    targets,              \* per coroutine: the keys its fetch loop iterates over
    todo,                 \* per coroutine: the keys its fetch loop has yet to visit
    client_updates,       \* per coroutine: its local dict client_updates, in order
    result,               \* per coroutine: its local result, returned or raised
    pushed,               \* per coroutine: the ids _distribute_global_model pushed to
    push_failed,          \* per coroutine: the ids whose push raised (and was logged)
    agg_args,             \* a direct call of _federated_averaging: its arguments
    agg_ret,              \* a direct call of _federated_averaging: what it gave
    anonymization_map,    \* SecureEHRProcessor.anonymization_map
    clock,                \* what datetime.now() gives
    anon_call,            \* the latest call of anonymize_patient_data
    issued,               \* per source identity: the anonymous ids returned so far
    anon_threads,         \* per thread inside anonymize_patient_data: where it is
    dicom_data,           \* the payload handed to encrypt_dicom_image
    image_id,             \* the image id handed to encrypt_dicom_image
    encrypted_package,    \* the package held for decrypt_dicom_image
    decrypted,            \* the latest call of decrypt_dicom_image
    sent_package,         \* the package as encrypt_dicom_image returned it
    iv_log                \* the iv of every call of encrypt_dicom_image, in order

agg_vars == <<agg_args, agg_ret>>

push_vars == <<pushed, push_failed>>

\* The state of FederatedEHRModel, FederatedEHROrchestrator and its coroutines.
fed_vars == <<clients, global_weights, current_round, performance_history,
              active_clients, pc, targets, todo, client_updates, result,
              pushed, push_failed>>

anon_vars == <<anonymization_map, clock, anon_call, issued, anon_threads>>

crypto_vars == <<dicom_data, image_id, encrypted_package, decrypted,
                 sent_package, iv_log>>

\* The state outside the federated engine.
other_vars == <<agg_vars, anon_vars, crypto_vars>>

vars == <<fed_vars, other_vars>>

model_vars == <<global_weights, current_round, performance_history>>

\* FederatedEHRModel.__init__ and FederatedEHROrchestrator.__init__
FedInit ==
    /\ clients = <<>>
    /\ global_weights = InitWeights
    /\ current_round = 0
    /\ performance_history = <<>>
    /\ active_clients = <<>>
    /\ pc = [t \in Tasks |-> "idle"]
    /\ targets = [t \in Tasks |-> <<>>]
    /\ todo = [t \in Tasks |-> <<>>]
    /\ client_updates = [t \in Tasks |-> <<>>]
    /\ result = [t \in Tasks |-> NoResult]
    /\ pushed = [t \in Tasks |-> <<>>]
    /\ push_failed = [t \in Tasks |-> {}]

\* No direct call of _federated_averaging is under way.
AggIdle ==
    /\ agg_args = <<>>
    /\ agg_ret = [called |-> FALSE, ok |-> FALSE, exc |-> "", value |-> <<>>]

\* The threads that call anonymize_patient_data on one processor.
Threads == {1, 2}

\* A thread that is not inside anonymize_patient_data.
ThreadIdle == [pc |-> "idle", patient_id |-> "", anonymous_id |-> <<>>]

\* SecureEHRProcessor.__init__; no call of anonymize_patient_data yet.
AnonInit ==
    /\ anonymization_map = <<>>
    /\ clock = 0
    /\ anon_call = [called |-> FALSE, input |-> <<>>, at |-> 0,
                    raised |-> "", output |-> <<>>]
    /\ issued = <<>>
    /\ anon_threads = [th \in Threads |-> ThreadIdle]

\* No call of decrypt_dicom_image yet.
NoDecrypt ==
    [called |-> FALSE, image_id |-> "", ok |-> FALSE, exc |-> "", value |-> <<>>]

\* MedicalImageEncryption.__init__; nothing encrypted yet.
CryptoIdle ==
    /\ dicom_data = <<>>
    /\ image_id = ""
    /\ encrypted_package = <<>>
    /\ decrypted = NoDecrypt
    /\ sent_package = <<>>
    /\ iv_log = <<>>

Init == FedInit /\ AggIdle /\ AnonInit /\ CryptoIdle

Range(s) == {s[i] : i \in DOMAIN s}

\* Mutant: an id that is already registered keeps its first client.
RegisterKeepsFirst(registry, id, name) == registry @@ (id :> name)

\* self.clients[client.client_id] = client
Register(registry, id, name) == (id :> name) @@ registry

\* register_client(client)
RegisterClient(id, name) ==
    /\ clients' = Register(clients, id, name)
    /\ UNCHANGED <<global_weights, current_round, performance_history,
                   active_clients, pc, targets, todo, client_updates, result,
                   push_vars, other_vars>>

\* The embedding application fills the orchestrator's public dict
\* active_clients (no method of the class writes it); it does so while no
\* round is in flight.
ActivateClient(id) ==
    /\ \A t \in Tasks : pc[t] = "idle"
    /\ id \notin Range(active_clients)
    /\ active_clients' = Append(active_clients, id)
    /\ UNCHANGED <<clients, global_weights, current_round, performance_history,
                   pc, targets, todo, client_updates, result, push_vars,
                   other_vars>>

\* The body of the fetch loop for client id, its await resolved with outcome
\* o: an update that is truthy is stored, None is skipped, an exception is
\* caught and logged.
KeepUpdate(updates, id, o) ==
    IF o.kind = "update"
    THEN Append(updates, [id |-> id, update |-> o.update])
    ELSE updates

\* Mutant: the fetch loop stops at the first update it gets.
FetchPhaseDoneOnFirstSuccess(remaining, updates) ==
    remaining = <<>> \/ updates # <<>>

\* The for loop over active_clients is exhausted.
FetchPhaseDone(remaining, updates) == remaining = <<>>

\* Mutant: the global model is distributed after a failed round as well.
AfterRoundAlwaysDistributes(res) ==
    IF res.status \in {"success", "failed"} THEN "distributing" ELSE "idle"

\* if result['status'] == 'success': await self._distribute_global_model(...)
\* and otherwise straight to the return.
AfterRound(res) ==
    IF res.status = "success" THEN "distributing" ELSE "idle"

\* The rest of coordinate_training_round once the fetch loop is over, up to
\* its next await: federated_training_round, then either the await of
\* _distribute_global_model or the return (or the exception leaving).
Aggregate(t, updates) ==
    LET out == FederatedTrainingRound(DOMAIN clients, global_weights, current_round,
                                      performance_history, updates)
    IN  /\ global_weights' = out.global_weights
        /\ current_round' = out.current_round
        /\ performance_history' = out.performance_history
        /\ result' = [result EXCEPT ![t] = out.result]
        /\ pc' = [pc EXCEPT ![t] = AfterRound(out.result)]

\* A caller invokes coordinate_training_round: the coroutine exists, its
\* body has not run yet.
Invoke(t) ==
    /\ pc[t] = "idle"
    /\ current_round < MaxRounds
    /\ pc' = [pc EXCEPT ![t] = "start"]
    /\ targets' = [targets EXCEPT ![t] = <<>>]
    /\ todo' = [todo EXCEPT ![t] = <<>>]
    /\ client_updates' = [client_updates EXCEPT ![t] = <<>>]
    /\ result' = [result EXCEPT ![t] = NoResult]
    /\ pushed' = [pushed EXCEPT ![t] = <<>>]
    /\ push_failed' = [push_failed EXCEPT ![t] = {}]
    /\ UNCHANGED <<clients, global_weights, current_round, performance_history,
                   active_clients, other_vars>>

\* coordinate_training_round from its first line to its first await.
Begin(t) ==
    /\ pc[t] = "start"
    /\ targets' = [targets EXCEPT ![t] = active_clients]
    /\ todo' = [todo EXCEPT ![t] = active_clients]
    /\ client_updates' = client_updates
    /\ IF FetchPhaseDone(active_clients, <<>>)
       THEN Aggregate(t, <<>>)
       ELSE /\ pc' = [pc EXCEPT ![t] = "collecting"]
            /\ UNCHANGED <<global_weights, current_round, performance_history, result>>
    /\ UNCHANGED <<clients, active_clients, push_vars, other_vars>>

\* The await of _get_client_update for the next client resolves with outcome
\* o; the coroutine runs on to its next await.
FetchResolve(t, o) ==
    /\ pc[t] = "collecting"
    /\ todo[t] # <<>>
    /\ LET id      == Head(todo[t])
           updates == KeepUpdate(client_updates[t], id, o)
       IN  /\ client_updates' = [client_updates EXCEPT ![t] = updates]
           /\ todo' = [todo EXCEPT ![t] = Tail(todo[t])]
           /\ IF FetchPhaseDone(Tail(todo[t]), updates)
              THEN Aggregate(t, updates)
              ELSE UNCHANGED <<global_weights, current_round, performance_history,
                               pc, result>>
    /\ UNCHANGED <<clients, active_clients, targets, push_vars, other_vars>>

\* Mutant: the first push that raises ends the loop.
RECURSIVE PushLoopStopsAtFailure(_, _)
PushLoopStopsAtFailure(ids, failed) ==
    IF ids = <<>> THEN <<>>
    ELSE IF Head(ids) \in failed THEN <<Head(ids)>>
    ELSE <<Head(ids)>> \o PushLoopStopsAtFailure(Tail(ids), failed)

\* The loop of _distribute_global_model over the keys ids, the pushes to
\* the clients in failed raising: each exception is caught and logged
\* inside the loop.  Gives the ids a push was made to.
RECURSIVE PushLoop(_, _)
PushLoop(ids, failed) ==
    IF ids = <<>> THEN <<>>
    ELSE <<Head(ids)>> \o PushLoop(Tail(ids), failed)

\* The await of _distribute_global_model resolves, the pushes to the clients
\* in failed having raised; the coroutine returns its result.
Distribute(t, failed) ==
    /\ pc[t] = "distributing"
    /\ pushed' = [pushed EXCEPT ![t] = PushLoop(active_clients, failed)]
    /\ push_failed' = [push_failed EXCEPT ![t] = failed]
    /\ pc' = [pc EXCEPT ![t] = "idle"]
    /\ UNCHANGED <<clients, global_weights, current_round, performance_history,
                   active_clients, targets, todo, client_updates, result,
                   other_vars>>

\* coordinate_training_round up to the await of _distribute_global_model.
RoundSteps(t) ==
    \/ Invoke(t)
    \/ Begin(t)
    \/ \E o \in FetchOutcomes : FetchResolve(t, o)

\* A round all of whose pushes go through.
Round(t) ==
    \/ RoundSteps(t)
    \/ Distribute(t, {})

\* The distribution with the pushes to any of the active clients raising.
DistributeSome(t) ==
    \E failed \in SUBSET Range(active_clients) : Distribute(t, failed)

\* A round some of whose pushes may raise.
RoundPush(t) ==
    \/ RoundSteps(t)
    \/ DistributeSome(t)

\* The await of _get_client_update for client id resolves: the client has
\* answered, with an update, with None or with an exception.
FetchFrom(t, id) ==
    /\ todo[t] # <<>>
    /\ Head(todo[t]) = id
    /\ \E o \in FetchOutcomes : FetchResolve(t, o)

Environment(ids) ==
    \/ \E id \in ids, name \in Names : RegisterClient(id, name)
    \/ \E id \in ids : ActivateClient(id)

\* One round trigger at a time.
Next == Environment(Ids) \/ Round(1)

Spec == Init /\ [][Next]_vars

\* Round triggers from concurrent callers.
NextConc == Environment(ConcIds) \/ \E t \in Tasks : Round(t)

SpecConc == Init /\ [][NextConc]_vars

\* One round trigger at a time, over ConcIds, pushes failing at will.
NextPush == Environment(ConcIds) \/ RoundPush(1)

SpecPush == Init /\ [][NextPush]_vars

\* The institutions registered under the ids of ConcIds.
RegNames == {"A", "B"}

\* One round trigger at a time, over ConcIds, with re-registration of an id
\* under another institution.
NextReg ==
    \/ \E id \in ConcIds, name \in RegNames : RegisterClient(id, name)
    \/ \E id \in ConcIds : ActivateClient(id)
    \/ Round(1)

SpecReg == Init /\ [][NextReg]_vars

\* What a client hands to a direct call of federated_training_round.
UpdateChoices == <<UA, UB, UN>>

\* The dict client_updates with update i1 for c1 and i2 for c2 (0: none).
MakeUpdates(i1, i2) ==
    (IF i1 = 0 THEN <<>> ELSE <<[id |-> "c1", update |-> UpdateChoices[i1]]>>)
    \o (IF i2 = 0 THEN <<>> ELSE <<[id |-> "c2", update |-> UpdateChoices[i2]]>>)

\* A direct call of federated_training_round(updates).
CallRound(updates) ==
    /\ current_round < MaxRounds
    /\ LET out == FederatedTrainingRound(DOMAIN clients, global_weights,
                                         current_round, performance_history, updates)
       IN  /\ global_weights' = out.global_weights
           /\ current_round' = out.current_round
           /\ performance_history' = out.performance_history
           /\ result' = [result EXCEPT ![1] = out.result]
    /\ client_updates' = [client_updates EXCEPT ![1] = updates]
    /\ UNCHANGED <<clients, active_clients, pc, targets, todo, push_vars,
                   other_vars>>

\* Registrations and direct calls of federated_training_round.
NextRoundCalls ==
    \/ \E id \in ConcIds, name \in Names : RegisterClient(id, name)
    \/ \E i1, i2 \in 0..Len(UpdateChoices) : CallRound(MakeUpdates(i1, i2))

SpecRound == Init /\ [][NextRoundCalls]_vars

\* The clients that may never answer a fetch.
Silent == {"c2"}

\* One round trigger at a time, over ConcIds.  The event loop runs every
\* coroutine that is ready, and every client outside Silent answers in the
\* end; nothing else resolves an await of _get_client_update, which has no
\* timeout around it.
NextLive ==
    \/ Environment(ConcIds)
    \/ Invoke(1)
    \/ Begin(1)
    \/ \E id \in ConcIds : FetchFrom(1, id)
    \/ Distribute(1, {})

SpecLive ==
    /\ Init
    /\ [][NextLive]_vars
    /\ WF_vars(Begin(1))
    /\ WF_vars(Distribute(1, {}))
    /\ \A id \in ConcIds \ Silent : WF_vars(FetchFrom(1, id))

\* ---------------------------------- _federated_averaging called directly

\* The longest list of updates handed to _federated_averaging directly.
MaxUpdates == 3

\* Weight lists of one or two tensors of length 1 to 3.
AggWeights == {<<T(<<1>>)>>, <<T(<<0>>)>>, <<T(<<2>>)>>,
               <<T(<<1, 2>>)>>, <<T(<<0, 1>>)>>, <<T(<<1, 2, 0>>)>>,
               <<T(<<1>>), T(<<0, 2>>)>>, <<T(<<2>>), T(<<1, 1>>)>>,
               <<T(<<1, 2>>), T(<<1>>)>>}

\* Sample counts.
AggSizes == {300, 700}

AggArgs == UNION {[1..k -> [model_weights : AggWeights, data_size : AggSizes]] :
                  k \in 1..MaxUpdates}

InitAgg ==
    /\ FedInit
    /\ AnonInit
    /\ CryptoIdle
    /\ agg_args \in AggArgs
    /\ agg_ret = [called |-> FALSE, ok |-> FALSE, exc |-> "", value |-> <<>>]

\* _federated_averaging(client_weights, client_sizes) on the drawn arguments.
CallAveraging ==
    /\ ~agg_ret.called
    /\ LET r == FederatedAveraging(
                    [i \in 1..Len(agg_args) |-> agg_args[i].model_weights],
                    [i \in 1..Len(agg_args) |-> agg_args[i].data_size])
       IN  agg_ret' = [called |-> TRUE, ok |-> r.ok, exc |-> r.exc, value |-> r.value]
    /\ UNCHANGED <<fed_vars, agg_args, anon_vars, crypto_vars>>

NextAgg == CallAveraging

SpecAgg == InitAgg /\ [][NextAgg]_vars

\* ------------------------------------------- anonymize_patient_data

MaxClock == 2

\* The patient ids of the records.
PatientIds == {"p1", "p2"}

\* Mutant: address is not among the fields that are removed.
SensitiveFieldsKeepAddress == {"patient_id", "name", "ssn", "phone", "email"}

\* sensitive_fields
SensitiveFields == {"patient_id", "name", "ssn", "phone", "email", "address"}

\* The identifying keys a record carries besides patient_id.
IdentifierChoices ==
    <<{}, {"name", "ssn"}, {"name", "ssn", "phone", "email", "address"}>>

\* The other fields a record carries; a zip code is a sequence of characters.
ExtraChoices ==
    << <<>>,
       [age |-> 17],
       [age |-> 45, zip_code |-> <<"1", "2", "3", "4", "5">>, diagnosis |-> "flu"] >>

\* An input dict: a patient_id if has_id, the identifying keys, the extras.
MakeRecord(has_id, pid, identifiers, extra) ==
    [k \in (IF has_id THEN {"patient_id"} ELSE {}) \cup identifiers \cup DOMAIN extra |->
        IF k = "patient_id" THEN pid
        ELSE IF k \in DOMAIN extra THEN extra[k]
        ELSE "x"]

\* dict.get(key, default)
Get(d, key, default) == IF key \in DOMAIN d THEN d[key] ELSE default

\* d[key] = value
With(d, key, value) ==
    [k \in DOMAIN d \cup {key} |-> IF k = key THEN value ELSE d[k]]

\* d.pop(field, None) for every field of fields
PopAll(d, fields) == [k \in DOMAIN d \ fields |-> d[k]]

\* The first 16 hex digits of the SHA-256 of "{patient_id}_{now}", taken to
\* be free of collisions: a digest stands for the text it was made from.
Sha16(patient_id, now) == [digest_of |-> patient_id, at |-> now]

\* Mutant: the pseudonym is hashed afresh on every call.
PseudonymAlwaysFresh(map, patient_id, now) ==
    With(map, patient_id, Sha16(patient_id, now))

\* The map after: if patient_id not in self.anonymization_map: ... = sha256(...)
Pseudonym(map, patient_id, now) ==
    IF patient_id \notin DOMAIN map
    THEN With(map, patient_id, Sha16(patient_id, now))
    ELSE map

\* Mutant: the first band takes in the age of 18.
GetAgeGroupInclusive(age) ==
    IF age <= 18 THEN "0-17"
    ELSE IF age < 30 THEN "18-29"
    ELSE IF age < 50 THEN "30-49"
    ELSE IF age < 70 THEN "50-69"
    ELSE "70+"

\* _get_age_group
GetAgeGroup(age) ==
    IF age < 18 THEN "0-17"
    ELSE IF age < 30 THEN "18-29"
    ELSE IF age < 50 THEN "30-49"
    ELSE IF age < 70 THEN "50-69"
    ELSE "70+"

\* zip_code[:3] + "XX"
Region(zip_code) ==
    SubSeq(zip_code, 1, IF Len(zip_code) < 3 THEN Len(zip_code) ELSE 3) \o <<"X", "X">>

\* if 'age' in anonymized: age_group replaces age
GeneralizeAge(d) ==
    IF "age" \in DOMAIN d
    THEN PopAll(With(d, "age_group", GetAgeGroup(d["age"])), {"age"})
    ELSE d

\* if 'zip_code' in anonymized: region replaces zip_code
GeneralizeZip(d) ==
    IF "zip_code" \in DOMAIN d
    THEN PopAll(With(d, "region", Region(d["zip_code"])), {"zip_code"})
    ELSE d

\* anonymize_patient_data(ehr_data) at time now on a processor whose map is
\* map: the map after the call, what it raised ("" for nothing) and what it
\* returned.
AnonymizePatientData(map, ehr_data, now) ==
    LET patient_id == Get(ehr_data, "patient_id", "")
        map_after  == Pseudonym(map, patient_id, now)
        with_id    == With(ehr_data, "anonymous_id", map_after[patient_id])
        stripped   == PopAll(with_id, SensitiveFields)
    IN  [map |-> map_after, key |-> patient_id, raised |-> "",
         output |-> GeneralizeZip(GeneralizeAge(stripped))]

\* Time passes.
Tick ==
    /\ clock < MaxClock
    /\ clock' = clock + 1
    /\ UNCHANGED <<anonymization_map, anon_call, issued, anon_threads, fed_vars,
                   agg_vars, crypto_vars>>

\* A call of anonymize_patient_data(ehr_data).
Anonymize(ehr_data) ==
    LET r == AnonymizePatientData(anonymization_map, ehr_data, clock)
    IN  /\ anonymization_map' = r.map
        /\ anon_call' = [called |-> TRUE, input |-> ehr_data, at |-> clock,
                         raised |-> r.raised, output |-> r.output]
        /\ issued' = IF r.raised = ""
                     THEN With(issued, r.key,
                               Get(issued, r.key, {}) \cup {r.output["anonymous_id"]})
                     ELSE issued
        /\ UNCHANGED <<clock, anon_threads, fed_vars, agg_vars, crypto_vars>>

NextAnon ==
    \/ Tick
    \/ \E has_id \in BOOLEAN, pid \in PatientIds,
          i \in DOMAIN IdentifierChoices, x \in DOMAIN ExtraChoices :
            Anonymize(MakeRecord(has_id, pid, IdentifierChoices[i], ExtraChoices[x]))

SpecAnon == Init /\ [][NextAnon]_vars

MaxAge == 120

\* The postal codes of the records: five characters, two characters.
ZipChoices == << <<"1", "2", "3", "4", "5">>, <<"9", "0">> >>

\* A record of patient p1 with an age if has_age and a postal code if zip > 0.
AgeRecord(has_age, age, zip) ==
    [k \in {"patient_id"} \cup (IF has_age THEN {"age"} ELSE {})
                          \cup (IF zip > 0 THEN {"zip_code"} ELSE {}) |->
        IF k = "patient_id" THEN "p1"
        ELSE IF k = "age" THEN age
        ELSE ZipChoices[zip]]

\* The record of the call to come: every age up to MaxAge, or none.
InitAge ==
    /\ FedInit
    /\ AggIdle
    /\ CryptoIdle
    /\ anonymization_map = <<>>
    /\ clock = 0
    /\ issued = <<>>
    /\ anon_threads = [th \in Threads |-> ThreadIdle]
    /\ \E has_age \in BOOLEAN, age \in 0..MaxAge, zip \in 0..Len(ZipChoices) :
          anon_call = [called |-> FALSE, input |-> AgeRecord(has_age, age, zip),
                       at |-> 0, raised |-> "", output |-> <<>>]

\* The call of anonymize_patient_data on the record drawn.
AnonymizeDrawn ==
    /\ ~anon_call.called
    /\ Anonymize(anon_call.input)

NextAge == AnonymizeDrawn

SpecAge == InitAge /\ [][NextAge]_vars

\* Thread th calls anonymize_patient_data with a record of patient pid and
\* runs to the test of line 47.
ThreadCall(th, pid) ==
    /\ anon_threads[th].pc = "idle"
    /\ anon_threads' = [anon_threads EXCEPT
                           ![th] = [pc |-> "check", patient_id |-> pid,
                                    anonymous_id |-> <<>>]]
    /\ UNCHANGED <<anonymization_map, clock, anon_call, issued, fed_vars,
                   agg_vars, crypto_vars>>

\* if patient_id not in self.anonymization_map
ThreadCheck(th) ==
    /\ anon_threads[th].pc = "check"
    /\ anon_threads' = [anon_threads EXCEPT
                           ![th].pc = IF anon_threads[th].patient_id
                                          \notin DOMAIN anonymization_map
                                       THEN "insert" ELSE "read"]
    /\ UNCHANGED <<anonymization_map, clock, anon_call, issued, fed_vars,
                   agg_vars, crypto_vars>>

\* self.anonymization_map[patient_id] = sha256(...).hexdigest()[:16]
ThreadInsert(th) ==
    /\ anon_threads[th].pc = "insert"
    /\ anonymization_map' =
          With(anonymization_map, anon_threads[th].patient_id,
               Sha16(anon_threads[th].patient_id, clock))
    /\ anon_threads' = [anon_threads EXCEPT ![th].pc = "read"]
    /\ UNCHANGED <<clock, anon_call, issued, fed_vars, agg_vars, crypto_vars>>

\* anonymized['anonymous_id'] = self.anonymization_map[patient_id]; the rest
\* of the call touches nothing shared.
ThreadRead(th) ==
    /\ anon_threads[th].pc = "read"
    /\ anon_threads' = [anon_threads EXCEPT
                           ![th].pc = "done",
                           ![th].anonymous_id =
                               anonymization_map[anon_threads[th].patient_id]]
    /\ UNCHANGED <<anonymization_map, clock, anon_call, issued, fed_vars,
                   agg_vars, crypto_vars>>

\* Two threads in anonymize_patient_data on one processor, switched between
\* any two statements: the method takes no lock.
NextAnonConc ==
    \/ Tick
    \/ \E th \in Threads, pid \in PatientIds : ThreadCall(th, pid)
    \/ \E th \in Threads : ThreadCheck(th)
    \/ \E th \in Threads : ThreadInsert(th)
    \/ \E th \in Threads : ThreadRead(th)

SpecAnonConc == Init /\ [][NextAnonConc]_vars

\* --------------------------------------------- MedicalImageEncryption

BlockSize == 16

MaxPayload == 33

ImageIds == {"img1", "img2"}

\* self.master_key
MasterKey == "master"

\* Payloads of every length up to MaxPayload: all zeros, a running pattern,
\* and two that end like PKCS7 padding (bytes 1, bytes BlockSize).
PayloadByte(kind, j) ==
    CASE kind = "zeros" -> 0
      [] kind = "ramp"  -> (7 * j + 3) % 256
      [] kind = "ones"  -> 1
      [] kind = "pads"  -> BlockSize

Payloads ==
    {[j \in 1..n |-> PayloadByte(kind, j)] :
        kind \in {"zeros", "ramp", "ones", "pads"}, n \in 0..MaxPayload}

\* What np.random.bytes(16) may give.
IVs == {[j \in 1..BlockSize |-> 0], [j \in 1..BlockSize |-> (37 * j) % 256]}

\* generate_image_key: PBKDF2 of the master key salted with the SHA-256 of the
\* image id, taken to be free of collisions.
GenerateImageKey(id) ==
    [kdf |-> "pbkdf2_hmac", password |-> MasterKey, salt |-> [sha256 |-> id]]

\* hmac.new(key, data, sha256).hexdigest(), taken to be free of collisions.
Hmac(key, data) == [hmac_key |-> key, over |-> data]

\* The base64 digits (0..63, one per character) of data, without the padding.
RECURSIVE B64Chars(_)
B64Chars(data) ==
    IF data = <<>> THEN <<>>
    ELSE IF Len(data) = 1
    THEN <<data[1] \div 4, (data[1] % 4) * 16>>
    ELSE IF Len(data) = 2
    THEN <<data[1] \div 4, ((data[1] % 4) * 16) + (data[2] \div 16),
           (data[2] % 16) * 4>>
    ELSE <<data[1] \div 4, ((data[1] % 4) * 16) + (data[2] \div 16),
           ((data[2] % 16) * 4) + (data[3] \div 64), data[3] % 64>>
         \o B64Chars(SubSeq(data, 4, Len(data)))

\* base64.b64encode(data).decode(): the digits and the number of '=' signs.
B64Encode(data) ==
    [chars |-> B64Chars(data), pad |-> (3 - (Len(data) % 3)) % 3]

\* A character of the base64 alphabet; any other is written 64.
IsB64Char(c) == c < 64

\* The bytes of a run of base64 digits; the bits left over in a last group
\* of two or three digits are dropped.
RECURSIVE B64Bytes(_)
B64Bytes(chars) ==
    IF Len(chars) < 2 THEN <<>>
    ELSE IF Len(chars) = 2
    THEN <<(chars[1] * 4) + (chars[2] \div 16)>>
    ELSE IF Len(chars) = 3
    THEN <<(chars[1] * 4) + (chars[2] \div 16),
           ((chars[2] % 16) * 16) + (chars[3] \div 4)>>
    ELSE <<(chars[1] * 4) + (chars[2] \div 16),
           ((chars[2] % 16) * 16) + (chars[3] \div 4),
           ((chars[3] % 4) * 64) + chars[4]>>
         \o B64Bytes(SubSeq(chars, 5, Len(chars)))

\* base64.b64decode(text), validate=False: characters outside the alphabet
\* are discarded; a digit count of 1 mod 4 or missing padding raises
\* binascii.Error.
B64Decode(text) ==
    LET digits == SelectSeq(text.chars, IsB64Char)
        n      == Len(digits) % 4
    IN  IF n = 1 \/ (n = 2 /\ text.pad < 2) \/ (n = 3 /\ text.pad < 1)
        THEN Raise("binascii.Error")
        ELSE Ok(B64Bytes(digits))

\* a ^ b on bytes
RECURSIVE XorByte(_, _)
XorByte(a, b) ==
    IF a = 0 /\ b = 0 THEN 0
    ELSE (((a % 2) + (b % 2)) % 2) + 2 * XorByte(a \div 2, b \div 2)

XorBlock(a, b) == [j \in 1..BlockSize |-> XorByte(a[j], b[j])]

\* The byte the stand-in block cipher adds at position j under the key.
KeyByte(key, j) ==
    ((IF key.salt.sha256 = "img1" THEN 41 ELSE 173) + 11 * j) % 256

\* AES under a key is a permutation of the 16-byte blocks; it is stood in for
\* by a keyed permutation with its inverse.
BlockEncrypt(key, block) ==
    [j \in 1..BlockSize |-> (block[j] + KeyByte(key, j)) % 256]

BlockDecrypt(key, block) ==
    [j \in 1..BlockSize |-> (block[j] - KeyByte(key, j)) % 256]

\* Cipher(AES(key), CBC(iv)).encryptor() over whole blocks: each block is
\* xored with the previous ciphertext block (the iv at first), then encrypted.
RECURSIVE CbcEncrypt(_, _, _)
CbcEncrypt(key, prev, data) ==
    IF data = <<>> THEN <<>>
    ELSE LET c == BlockEncrypt(key, XorBlock(SubSeq(data, 1, BlockSize), prev))
         IN  c \o CbcEncrypt(key, c, SubSeq(data, BlockSize + 1, Len(data)))

\* Cipher(AES(key), CBC(iv)).decryptor() over whole blocks.
RECURSIVE CbcDecrypt(_, _, _)
CbcDecrypt(key, prev, data) ==
    IF data = <<>> THEN <<>>
    ELSE LET c == SubSeq(data, 1, BlockSize)
         IN  XorBlock(BlockDecrypt(key, c), prev)
             \o CbcDecrypt(key, c, SubSeq(data, BlockSize + 1, Len(data)))

\* Mutant: a payload that fills its last block gets no padding.
PadDataNoFullBlock(data) ==
    LET padding_length == (BlockSize - (Len(data) % BlockSize)) % BlockSize
    IN  data \o [j \in 1..padding_length |-> padding_length]

\* _pad_data
PadData(data) ==
    LET padding_length == BlockSize - (Len(data) % BlockSize)
    IN  data \o [j \in 1..padding_length |-> padding_length]

\* _unpad_data: padded_data[-1] raises IndexError on empty data; the slice
\* [:-n] is empty for n = 0 and for n beyond the length.
UnpadData(padded_data) ==
    IF padded_data = <<>> THEN Raise("IndexError")
    ELSE LET padding_length == padded_data[Len(padded_data)]
             keep == IF padding_length = 0 \/ padding_length > Len(padded_data)
                     THEN 0
                     ELSE Len(padded_data) - padding_length
         IN  Ok(SubSeq(padded_data, 1, keep))

\* encrypt_dicom_image(data, id) with the iv drawn: the package it returns
\* (the timestamp left out).
EncryptDicomImage(data, id, iv) ==
    LET image_key      == GenerateImageKey(id)
        encrypted_data == CbcEncrypt(image_key, iv, PadData(data))
    IN  [encrypted_data |-> B64Encode(encrypted_data),
         iv |-> B64Encode(iv),
         integrity_hash |-> Hmac(image_key, encrypted_data),
         encryption_algorithm |-> "AES-256-CBC",
         image_id |-> id]

\* decrypt_dicom_image(package, id): what it returns or raises.
DecryptDicomImage(package, id) ==
    LET encrypted_data == B64Decode(package.encrypted_data)
        iv             == B64Decode(package.iv)
        image_key      == GenerateImageKey(id)
    IN  IF ~encrypted_data.ok THEN encrypted_data
        ELSE IF ~iv.ok THEN iv
        ELSE IF package.integrity_hash # Hmac(image_key, encrypted_data.value)
        THEN Raise("ValueError")
        ELSE IF Len(iv.value) # BlockSize
        THEN Raise("ValueError")
        ELSE IF Len(encrypted_data.value) % BlockSize # 0
        THEN Raise("ValueError")
        ELSE UnpadData(CbcDecrypt(image_key, iv.value, encrypted_data.value))

\* The payload and the image id of the call to come.
InitCrypto ==
    /\ FedInit
    /\ AggIdle
    /\ AnonInit
    /\ dicom_data \in Payloads
    /\ image_id \in ImageIds
    /\ encrypted_package = <<>>
    /\ decrypted = NoDecrypt
    /\ sent_package = <<>>
    /\ iv_log = <<>>

\* A call of encrypt_dicom_image(dicom_data, image_id); the package is kept
\* for decryption.
Encrypt(iv) ==
    /\ DOMAIN encrypted_package = {}
    /\ encrypted_package' = EncryptDicomImage(dicom_data, image_id, iv)
    /\ sent_package' = encrypted_package'
    /\ iv_log' = Append(iv_log, iv)
    /\ UNCHANGED <<dicom_data, image_id, decrypted, fed_vars, agg_vars, anon_vars>>

\* A call of decrypt_dicom_image(encrypted_package, id).
Decrypt(id) ==
    /\ DOMAIN encrypted_package # {}
    /\ LET r == DecryptDicomImage(encrypted_package, id)
       IN  decrypted' = [called |-> TRUE, image_id |-> id, ok |-> r.ok,
                         exc |-> r.exc, value |-> r.value]
    /\ UNCHANGED <<dicom_data, image_id, encrypted_package, sent_package, iv_log,
                   fed_vars, agg_vars, anon_vars>>

NextCrypto ==
    \/ \E iv \in IVs : Encrypt(iv)
    \/ \E id \in ImageIds : Decrypt(id)

SpecCrypto == InitCrypto /\ [][NextCrypto]_vars

\* The package is altered between encrypt_dicom_image and decrypt_dicom_image:
\* character i of the base64 text of the ciphertext becomes c (64: a
\* character outside the alphabet).
TamperCiphertext(i, c) ==
    /\ DOMAIN encrypted_package # {}
    /\ encrypted_package = sent_package
    /\ i \in DOMAIN encrypted_package.encrypted_data.chars
    /\ c # encrypted_package.encrypted_data.chars[i]
    /\ encrypted_package' =
          [encrypted_package EXCEPT !.encrypted_data.chars[i] = c]
    /\ UNCHANGED <<dicom_data, image_id, decrypted, sent_package, iv_log,
                   fed_vars, agg_vars, anon_vars>>

\* The first or the last character of the ciphertext's text is altered: its
\* lowest bit or its highest bit flipped, or made a character outside the
\* alphabet.
TamperCiphertextSome ==
    /\ DOMAIN encrypted_package # {}
    /\ LET chars == encrypted_package.encrypted_data.chars
       IN  \E i \in {1, Len(chars)} :
             \E c \in {(chars[i] + 1) % 64, (chars[i] + 32) % 64, 64} :
                TamperCiphertext(i, c)

\* The hex digest in the package is altered.
TamperTag ==
    /\ DOMAIN encrypted_package # {}
    /\ encrypted_package = sent_package
    /\ encrypted_package' =
          [encrypted_package EXCEPT
              !.integrity_hash = [altered |-> encrypted_package.integrity_hash]]
    /\ UNCHANGED <<dicom_data, image_id, decrypted, sent_package, iv_log,
                   fed_vars, agg_vars, anon_vars>>

\* The iv field of the package is replaced by another iv.
TamperIv(iv) ==
    /\ DOMAIN encrypted_package # {}
    /\ encrypted_package = sent_package
    /\ B64Encode(iv) # encrypted_package.iv
    /\ encrypted_package' = [encrypted_package EXCEPT !.iv = B64Encode(iv)]
    /\ UNCHANGED <<dicom_data, image_id, decrypted, sent_package, iv_log,
                   fed_vars, agg_vars, anon_vars>>

\* The algorithm field of the package is replaced.
TamperAlgorithm ==
    /\ DOMAIN encrypted_package # {}
    /\ encrypted_package = sent_package
    /\ encrypted_package' =
          [encrypted_package EXCEPT !.encryption_algorithm = "none"]
    /\ UNCHANGED <<dicom_data, image_id, decrypted, sent_package, iv_log,
                   fed_vars, agg_vars, anon_vars>>

NextTamper ==
    \/ \E iv \in IVs : Encrypt(iv)
    \/ TamperCiphertextSome
    \/ TamperTag
    \/ \E iv \in IVs : TamperIv(iv)
    \/ TamperAlgorithm
    \/ \E id \in ImageIds : Decrypt(id)

SpecTamper == InitCrypto /\ [][NextTamper]_vars

MaxEncrypts == 2

\* One more call of encrypt_dicom_image(dicom_data, id), the iv drawn.
EncryptAgain(id, iv) ==
    /\ Len(iv_log) < MaxEncrypts
    /\ image_id' = id
    /\ encrypted_package' = EncryptDicomImage(dicom_data, id, iv)
    /\ sent_package' = encrypted_package'
    /\ iv_log' = Append(iv_log, iv)
    /\ UNCHANGED <<dicom_data, decrypted, fed_vars, agg_vars, anon_vars>>

NextIv == \E id \in ImageIds, iv \in IVs : EncryptAgain(id, iv)

SpecIv == InitCrypto /\ [][NextIv]_vars

\* ------------------------------------------------------------ claims

\* Coroutine t gets its result in this step: federated_training_round has
\* returned or raised.
Decides(t) == result[t].status = "none" /\ result'[t].status # "none"

\* The updates of a list that come from registered clients.
Used(updates) == CollectRegistered(DOMAIN clients, updates)

\* Every update of the list has the model's tensor count and shapes.
WellFormed(updates) ==
    \A i \in 1..Len(updates) : ShapeOf(updates[i].model_weights) = ModelShape

\* All updates of the list have the same tensor count and shapes.
Uniform(updates) ==
    \A i \in 1..Len(updates) :
        ShapeOf(updates[i].model_weights) = ShapeOf(updates[1].model_weights)

\* sum over the first j updates of sample_count * entry k of tensor i
RECURSIVE WSum(_, _, _, _)
WSum(updates, i, k, j) ==
    IF j = 0 THEN 0
    ELSE updates[j].data_size * updates[j].model_weights[i][k].n
         + WSum(updates, i, k, j - 1)

RECURSIVE TotalSamples(_, _)
TotalSamples(updates, j) ==
    IF j = 0 THEN 0 ELSE updates[j].data_size + TotalSamples(updates, j - 1)

\* The sample-weighted mean of uniform updates with integer entries, position
\* by position: (sum_j sample_count_j * update_j[i][k]) / (sum_j sample_count_j).
WeightedMean(updates) ==
    [i \in 1..Len(updates[1].model_weights) |->
        [k \in 1..Len(updates[1].model_weights[i]) |->
            Rat(WSum(updates, i, k, Len(updates)),
                TotalSamples(updates, Len(updates)))]]

\* C1: a round in which every fetch fails, so that no update is collected,
\* returns status=failed, reason=no_updates and leaves current_round (and the
\* rest of the model) unchanged.
C1_QuorumFailure ==
    [][\A t \in Tasks :
          (Decides(t) /\ client_updates'[t] = <<>>)
          => /\ result'[t] = Result("failed", "no_updates", 0)
             /\ pc'[t] = "idle"
             /\ current_round' = current_round
             /\ UNCHANGED model_vars]_vars

\* C1 witness: a round over three targeted clients, all of whose fetches
\* failed, has returned failed/no_updates.
C1_Witness ==
    /\ pc[1] = "idle"
    /\ Len(targets[1]) = 3
    /\ todo[1] = <<>>
    /\ client_updates[1] = <<>>
    /\ result[1] = Result("failed", "no_updates", 0)

\* C2: when at least one update of a registered client arrives (the other
\* fetches failing) and the arrived updates have the model's shape, the round
\* succeeds, the global weights become the weighted mean of exactly the
\* updates that arrived, and the round number goes up by exactly 1.
C2_PartialSuccess ==
    [][\A t \in Tasks :
          LET used == Used(client_updates'[t])
          IN  (Decides(t) /\ used # <<>> /\ WellFormed(used))
              => /\ result'[t] = Result("success", "", current_round + 1)
                 /\ current_round' = current_round + 1
                 /\ global_weights' = WeightedMean(used)]_vars

\* C2 witness: three registered clients targeted, one fetch failed, the round
\* succeeded with the mean of the two updates that arrived.
C2_Witness ==
    /\ pc[1] = "idle"
    /\ Len(targets[1]) = 3
    /\ Range(targets[1]) \subseteq DOMAIN clients
    /\ Len(client_updates[1]) = 2
    /\ result[1].status = "success"
    /\ current_round = 1
    /\ WellFormed(Used(client_updates[1]))
    /\ global_weights = WeightedMean(Used(client_updates[1]))
    /\ global_weights # InitWeights

\* C3: performance_history grows by exactly one entry in a step in which a
\* round succeeds and by none in any other step (a failed round included),
\* and the entries it holds stay as they are.
C3_HistoryGrowth ==
    [][/\ Len(performance_history') >= Len(performance_history)
       /\ SubSeq(performance_history', 1, Len(performance_history))
              = performance_history
       /\ Len(performance_history')
              = Len(performance_history)
                + Cardinality({t \in Tasks : Decides(t) /\ result'[t].status = "success"})
      ]_vars

\* C3 witness: a second successful round has appended a second, different
\* entry behind the first.
C3_Witness ==
    /\ Len(performance_history) = 2
    /\ performance_history[1] # performance_history[2]
    /\ pc[1] = "idle"
    /\ result[1] = Result("success", "", 2)

\* C4: for a non-empty list of updates of identical tensor count and shapes,
\* _federated_averaging returns, at each position, the sum over the clients
\* of (sample_count / total sample count) * the client's value there.
C4_WeightedAveraging ==
    (agg_ret.called /\ Uniform(agg_args))
    => (agg_ret.ok /\ agg_ret.value = WeightedMean(agg_args))

\* C4 witness: A (300 samples, [1]) and B (700 samples, [0]) gave [3/10].
C4_Witness ==
    /\ agg_ret.called
    /\ agg_args = <<[model_weights |-> <<T(<<1>>)>>, data_size |-> 300],
                    [model_weights |-> <<T(<<0>>)>>, data_size |-> 700]>>
    /\ agg_ret.ok
    /\ agg_ret.value = <<<<[n |-> 3, d |-> 10]>>>>

\* C5 as claimed: updates that differ in tensor count or in a tensor's shape
\* make _federated_averaging fail and return no aggregate.
C5_ShapeMismatchFails ==
    (agg_ret.called /\ ~Uniform(agg_args)) => ~agg_ret.ok

\* C6 as claimed: a round whose collected updates differ in shape returns the
\* structured failure status=failed, reason=shape_mismatch.
C6_ShapeMismatchResult ==
    [][\A t \in Tasks :
          (Decides(t) /\ ~Uniform(Used(client_updates'[t])))
          => /\ result'[t].status = "failed"
             /\ result'[t].reason = "shape_mismatch"]_vars

\* C7 as claimed: a round trigger ends with a status and, on failure, a
\* reason code; no exception leaves coordinate_training_round.
C7_NoExceptionEscapes ==
    \A t \in Tasks :
        /\ result[t].status \in {"none", "success", "failed"}
        /\ result[t].status = "failed" => result[t].reason # ""

\* An update of the model's tensor count and shapes.
WellFormedUpdate(u) == ShapeOf(u.model_weights) = ModelShape

\* C8 as claimed: a client that returned malformed data is excluded like one
\* whose fetch failed, and the round goes on with the others: if a
\* well-formed update of a registered client arrived, the round succeeds
\* with the mean of the well-formed updates.
C8_FailureIsolation ==
    [][\A t \in Tasks :
          LET good == SelectSeq(Used(client_updates'[t]), WellFormedUpdate)
          IN  (Decides(t) /\ good # <<>>)
              => /\ result'[t].status = "success"
                 /\ global_weights' = WeightedMean(good)]_vars

\* C9 as claimed: at most one invocation of coordinate_training_round is in
\* its fetch or distribution phase at a time.
C9_OneRoundAtATime ==
    Cardinality({t \in Tasks : pc[t] \in {"collecting", "distributing"}}) <= 1

\* C10: federated_training_round runs, and the model changes, only once the
\* fetch of every targeted client has resolved; a first success does not cut
\* the fetch phase short.
C10_AggregationAfterFetch ==
    [][\A t \in Tasks :
          (Decides(t) \/ (pc[t] = "collecting" /\ model_vars' # model_vars))
          => /\ todo'[t] = <<>>
             /\ targets'[t] = active_clients]_vars

\* C10 witness: of three targeted clients the first fetch gave an update,
\* the second failed, the third gave an update, and only then the round
\* succeeded.
C10_Witness ==
    /\ Len(targets[1]) = 3
    /\ todo[1] = <<>>
    /\ Len(client_updates[1]) = 2
    /\ client_updates[1][1].id = targets[1][1]
    /\ client_updates[1][2].id = targets[1][3]
    /\ result[1].status = "success"

\* C11: the distribution of the global model begins only in the step that
\* has replaced the parameters, appended the snapshot and incremented the
\* round number; it is performed only for a round whose result is success,
\* and when it is over every active client id has been pushed to.
C11_DistributionAfterUpdate ==
    [][\A t \in Tasks :
         /\ (pc[t] # "distributing" /\ pc'[t] = "distributing") =>
                /\ Decides(t)
                /\ result'[t] = Result("success", "", current_round')
                /\ current_round' = current_round + 1
                /\ Len(performance_history') = Len(performance_history) + 1
                /\ global_weights' =
                       FederatedAveraging(
                           [i \in 1..Len(Used(client_updates'[t])) |->
                               Used(client_updates'[t])[i].model_weights],
                           [i \in 1..Len(Used(client_updates'[t])) |->
                               Used(client_updates'[t])[i].data_size]).value
         /\ (pc[t] = "distributing" /\ pc'[t] # "distributing") =>
                /\ result[t].status = "success"
                /\ result[t].round = current_round
                /\ pushed'[t] = active_clients
         /\ pushed'[t] # <<>> => result'[t].status = "success"
         /\ (result'[t].status # "success" /\ pc'[t] = "idle") => pushed'[t] = <<>>
    ]_vars

\* A second successful round has been distributed to two active clients.
C11_Witness ==
    /\ pc[1] = "idle"
    /\ result[1] = Result("success", "", 2)
    /\ Len(active_clients) = 2
    /\ pushed[1] = active_clients
    /\ global_weights # InitWeights

\* C12: a push that raises during the distribution rolls nothing back: the
\* parameters, the round number and the history stay as committed, every
\* active client is still pushed to, and the result stays success.
C12_PushFailureKeepsRound ==
    [][\A t \in Tasks :
         (pc[t] = "distributing" /\ pc'[t] # "distributing") =>
            /\ UNCHANGED model_vars
            /\ current_round >= 1
            /\ Len(performance_history) = current_round
            /\ result'[t] = result[t]
            /\ result'[t] = Result("success", "", current_round)
            /\ Range(pushed'[t]) = Range(active_clients)
            /\ pc'[t] = "idle"
    ]_vars

\* The push to the first of two active clients raised; the second was pushed
\* to and round 1 stands.
C12_Witness ==
    /\ pc[1] = "idle"
    /\ Len(active_clients) = 2
    /\ push_failed[1] = {Head(active_clients)}
    /\ Len(pushed[1]) = 2
    /\ result[1] = Result("success", "", 1)
    /\ current_round = 1
    /\ Len(performance_history) = 1
    /\ global_weights # InitWeights

\* C13: when a round starts, every client registered through register_client
\* is among the clients a fetch is issued for.
C13_RegisteredAreTargeted ==
    [][\A t \in Tasks :
         (pc[t] = "start" /\ pc'[t] # "start") =>
            DOMAIN clients \subseteq Range(targets'[t])
    ]_vars

\* C14: a round that is waiting for its clients ends, returning or raising,
\* even when a client never answers.
C14_RoundTerminates == (pc[1] = "collecting") ~> (pc[1] = "idle")

\* C15: the snapshot of a successful round counts exactly the updates that
\* were aggregated, those of registered clients, and its total_samples is
\* the sum of their sample counts.
C15_SnapshotOverContributors ==
    [][\A t \in Tasks :
         (Decides(t) /\ result'[t].status = "success") =>
            LET used == Used(client_updates'[t])
                snap == performance_history'[Len(performance_history')]
            IN  /\ snap.participating_clients = Len(used)
                /\ snap.total_samples = TotalSamples(used, Len(used))
    ]_vars

\* C16: the round number starts at 0; a step never decreases it and changes
\* it only by +1, only in the step in which a round gets the result success,
\* and that result reports the new value.
C16_RoundNumberMonotonic ==
    /\ current_round = 0
    /\ [][/\ current_round' \in {current_round, current_round + 1}
          /\ current_round' # current_round =>
                \E t \in Tasks :
                    /\ Decides(t)
                    /\ result'[t] = Result("success", "", current_round')
          /\ \A t \in Tasks :
                (Decides(t) /\ result'[t].status = "success") =>
                    /\ current_round' = current_round + 1
                    /\ result'[t].round = current_round'
          /\ \A t \in Tasks :
                (Decides(t) /\ result'[t].status # "success") =>
                    current_round' = current_round
       ]_vars

\* After a successful round, a round failed with no_updates and left the
\* round number at 1.
C16_Witness ==
    /\ current_round = 1
    /\ Len(performance_history) = 1
    /\ result[1] = Result("failed", "no_updates", 0)
    /\ pc[1] = "idle"

\* The direct-identifier keys.
DirectIdentifiers == {"patient_id", "name", "ssn", "phone", "email", "address"}

\* C17: within one processor, every call of anonymize_patient_data with the
\* same source identity returns the same anonymous_id, whatever calls happen
\* in between and whenever they are made.
C17_PseudonymDeterminism ==
    /\ \A id \in DOMAIN issued : Cardinality(issued[id]) = 1
    /\ (anon_call.called /\ anon_call.raised = "") =>
          /\ "anonymous_id" \in DOMAIN anon_call.output
          /\ issued[Get(anon_call.input, "patient_id", "")]
                = {anon_call.output["anonymous_id"]}

\* A patient is anonymized again, later than its first call and after
\* another patient's first call, and gets the id of its first call.
C17_Witness ==
    /\ anon_call.called
    /\ "patient_id" \in DOMAIN anon_call.input
    /\ LET pid == anon_call.input["patient_id"]
       IN  /\ anon_call.output["anonymous_id"] = anonymization_map[pid]
           /\ \E other \in DOMAIN anonymization_map \ {pid} :
                 /\ anonymization_map[pid].at < anonymization_map[other].at
                 /\ anonymization_map[other].at < anon_call.at

\* C18: the output of anonymize_patient_data has none of the keys patient_id,
\* name, ssn, phone, email, address, whatever the input record.
C18_NonLeakage ==
    (anon_call.called /\ anon_call.raised = "") =>
        DOMAIN anon_call.output \cap DirectIdentifiers = {}

\* A record with all six direct identifiers has been anonymized.
C18_Witness ==
    /\ anon_call.called
    /\ anon_call.raised = ""
    /\ DirectIdentifiers \subseteq DOMAIN anon_call.input
    /\ "anonymous_id" \in DOMAIN anon_call.output
    /\ "age_group" \in DOMAIN anon_call.output

\* C19: a call of anonymize_patient_data with a record that lacks patient_id
\* raises ValidationError, returns no record and adds nothing to the
\* pseudonym cache.
C19_MissingIdentityRejected ==
    (anon_call.called /\ "patient_id" \notin DOMAIN anon_call.input) =>
        /\ anon_call.raised = "ValidationError"
        /\ DOMAIN anon_call.output = {}
        /\ "" \notin DOMAIN anonymization_map

\* C20: decrypt_dicom_image on the package encrypt_dicom_image made, with
\* the same image id, returns exactly the payload that was encrypted, the
\* empty payload and payloads of whole blocks included.
C20_RoundTrip ==
    (decrypted.called /\ decrypted.image_id = image_id) =>
        /\ decrypted.ok
        /\ decrypted.value = dicom_data

\* A payload of exactly one block that ends like padding came back whole.
C20_Witness ==
    /\ decrypted.called
    /\ decrypted.image_id = image_id
    /\ Len(dicom_data) = BlockSize
    /\ dicom_data[BlockSize] = 1
    /\ decrypted.ok
    /\ decrypted.value = dicom_data

\* The ciphertext or the tag of the package differs from what
\* encrypt_dicom_image returned.
Tampered ==
    /\ DOMAIN encrypted_package # {}
    /\ \/ encrypted_package.encrypted_data # sent_package.encrypted_data
       \/ encrypted_package.integrity_hash # sent_package.integrity_hash

\* C21: when a byte of the package's ciphertext or of its tag was changed,
\* decrypt_dicom_image fails with the integrity error.
C21_TamperDetected ==
    (decrypted.called /\ Tampered) =>
        /\ ~decrypted.ok
        /\ decrypted.exc = "ValueError"

\* C22: with ciphertext and tag as encrypt_dicom_image made them and the
\* image id of the encryption, decrypt_dicom_image returns the payload that
\* was encrypted, whatever the other fields hold; and whatever it returns is
\* that payload.
C22_NoSilentCorruption ==
    /\ (decrypted.called /\ ~Tampered /\ decrypted.image_id = image_id) =>
          (decrypted.ok /\ decrypted.value = dicom_data)
    /\ (decrypted.called /\ decrypted.ok) => decrypted.value = dicom_data

\* C23: the ivs of any two calls of encrypt_dicom_image differ.
C23_NoIvReuse ==
    \A i, j \in DOMAIN iv_log : i # j => iv_log[i] # iv_log[j]

\* C24: register_client is an upsert keyed by the client id: on every
\* registry the program reaches, registering puts the client under its id
\* and leaves every other entry alone, registering it again changes nothing
\* more; the registry changes in no step but a registration, and in no step
\* of a round.
C24_RegisterUpsert ==
    [][/\ \A id \in ConcIds, name \in RegNames :
            LET once == Register(clients, id, name)
            IN  /\ DOMAIN once = DOMAIN clients \cup {id}
                /\ once[id] = name
                /\ \A k \in DOMAIN clients \ {id} : once[k] = clients[k]
                /\ Register(once, id, name) = once
       /\ clients' # clients =>
            /\ \E id \in ConcIds, name \in RegNames :
                  /\ DOMAIN clients' = DOMAIN clients \cup {id}
                  /\ clients'[id] = name
                  /\ \A k \in DOMAIN clients \ {id} : clients'[k] = clients[k]
            /\ UNCHANGED <<model_vars, active_clients, pc, result>>
       /\ (pc' # pc \/ result' # result \/ model_vars' # model_vars) =>
            clients' = clients
    ]_vars

\* Two ids registered under different institutions are still there after a
\* successful round and a failed one.
C24_Witness ==
    /\ DOMAIN clients = ConcIds
    /\ clients["c1"] = "B"
    /\ clients["c2"] = "A"
    /\ current_round = 1
    /\ pc[1] = "idle"
    /\ result[1] = Result("failed", "no_updates", 0)

\* C25: two calls of anonymize_patient_data for the same source identity
\* that run at the same time return the same anonymous_id, the one the cache
\* holds: the cached value is never overwritten.
C25_CacheSerialized ==
    \A t1, t2 \in Threads :
        (/\ anon_threads[t1].pc = "done"
         /\ anon_threads[t2].pc = "done"
         /\ anon_threads[t1].patient_id = anon_threads[t2].patient_id) =>
            /\ anon_threads[t1].anonymous_id = anon_threads[t2].anonymous_id
            /\ anon_threads[t1].anonymous_id =
                  anonymization_map[anon_threads[t1].patient_id]

\* C26: in every round, _federated_averaging is called only with at least
\* one update, all from registered clients; with none collected the round
\* returns failed/no_updates without the call.
C26_NeverAveragesNothing ==
    [][\A t \in Tasks :
         Decides(t) =>
            LET call == AveragingCall(DOMAIN clients, client_updates'[t])
                used == Used(client_updates'[t])
            IN  /\ call.made =>
                     /\ Len(call.client_weights) >= 1
                     /\ Len(call.client_sizes) = Len(call.client_weights)
                     /\ Len(call.client_weights) = Len(used)
                     /\ SumSeq(call.client_sizes) > 0
                     /\ result'[t].reason # "no_updates"
                /\ ~call.made =>
                     /\ used = <<>>
                     /\ result'[t] = Result("failed", "no_updates", 0)
    ]_vars

\* Updates were fetched, none from a registered client: the round failed
\* with no_updates and nothing was averaged.
C26_Witness ==
    /\ pc[1] = "idle"
    /\ Len(client_updates[1]) = 2
    /\ Used(client_updates[1]) = <<>>
    /\ ~AveragingCall(DOMAIN clients, client_updates[1]).made
    /\ result[1] = Result("failed", "no_updates", 0)

\* The band of an age: below 18, 18..29, 30..49, 50..69, 70 and over.
Band(age) ==
    CASE age <= 17       -> "0-17"
      [] age \in 18..29  -> "18-29"
      [] age \in 30..49  -> "30-49"
      [] age \in 50..69  -> "50-69"
      [] age >= 70       -> "70+"

\* C27: every age falls in exactly one of the five bands; a record with an
\* age comes out with the band and without the age, a record with a postal
\* code comes out with its first three characters followed by XX and without
\* the code, and a record without them gets neither.
C27_AgeBands ==
    anon_call.called =>
        LET in  == anon_call.input
            out == anon_call.output
        IN  /\ "age" \notin DOMAIN out
            /\ "zip_code" \notin DOMAIN out
            /\ "age" \in DOMAIN in =>
                  /\ "age_group" \in DOMAIN out
                  /\ out["age_group"] = Band(in["age"])
            /\ "age" \notin DOMAIN in => "age_group" \notin DOMAIN out
            /\ "zip_code" \in DOMAIN in =>
                  /\ "region" \in DOMAIN out
                  /\ LET z == in["zip_code"]
                         n == IF Len(z) < 3 THEN Len(z) ELSE 3
                     IN  out["region"] = [i \in 1..(n + 2) |->
                                             IF i <= n THEN z[i] ELSE "X"]
            /\ "zip_code" \notin DOMAIN in => "region" \notin DOMAIN out

\* A record of age 18 with a five-character postal code has been anonymized.
C27_Witness ==
    /\ anon_call.called
    /\ "age" \in DOMAIN anon_call.input
    /\ anon_call.input["age"] = 18
    /\ anon_call.output["age_group"] = "18-29"
    /\ "region" \in DOMAIN anon_call.output
    /\ anon_call.output["region"] = <<"1", "2", "3", "X", "X">>

\* C28: in every reachable state the round number equals the length of
\* performance_history.
C28_RoundCountsHistory ==
    current_round = Len(performance_history)

\* After one successful round, a round was aborted by an exception: one
\* snapshot, round number 1.
C28_Witness ==
    /\ pc[1] = "idle"
    /\ result[1].status = "raised"
    /\ current_round = 1
    /\ Len(performance_history) = 1

\* C29: a call of federated_training_round applies all of its three
\* mutations or none: the parameters are replaced only in a step that also
\* appends the snapshot and increments the round number, and that returns
\* success.
C29_AtomicCommit ==
    [][/\ global_weights' # global_weights =>
            /\ current_round' = current_round + 1
            /\ Len(performance_history') = Len(performance_history) + 1
            /\ result'[1].status = "success"
       /\ (current_round' # current_round
           \/ performance_history' # performance_history) =>
            /\ current_round' = current_round + 1
            /\ Len(performance_history') = Len(performance_history) + 1
            /\ result'[1].status = "success"
    ]_vars

\* The registered pairs of a dict client_updates.
IsRegisteredPair(p) == p.id \in DOMAIN clients

\* C30: updates under ids that are not registered never influence the global
\* state: a round leaves the parameters, the round number and the history as
\* the same round without those updates would, with the same result.
C30_UnregisteredIgnored ==
    [][\A t \in Tasks :
         Decides(t) =>
            LET out == FederatedTrainingRound(
                           DOMAIN clients, global_weights, current_round,
                           performance_history,
                           SelectSeq(client_updates'[t], IsRegisteredPair))
            IN  /\ global_weights' = out.global_weights
                /\ current_round' = out.current_round
                /\ performance_history' = out.performance_history
                /\ result'[t] = out.result
    ]_vars

====
